---- MODULE Spec2Model ----
(***************************************************************************)
(* Model of app.py: the earthquake clustering pipeline                     *)
(*   fetch_earthquake_data -> run_dbscan (StandardScaler + DBSCAN)         *)
(*   -> summary statistics (api_stats, results) and create_map.            *)
(*                                                                         *)
(* Coordinates are integers.  StandardScaler divides each centred axis by  *)
(* its population standard deviation, so squared distances in the scaled   *)
(* space are rationals; the eps test is done by exact cross                *)
(* multiplication (floating point rounding at the eps boundary is not      *)
(* modelled).  DBSCAN is scikit-learn's: all eps-neighbourhoods are        *)
(* computed first, core samples are those with at least min_samples        *)
(* neighbours (self included), every label starts at -1, and the points    *)
(* are scanned in index order, each still unlabelled core sample seeding   *)
(* a depth-first expansion over a stack.                                   *)
(***************************************************************************)
EXTENDS Integers, Sequences, FiniteSets

VARIABLES
    feed,           \* data['features'] of the USGS response: <<lat, lon>> per event
    pc,             \* position of the request in the pipeline
    scaler,         \* the fitted StandardScaler (n, per-axis n^2 * variance)
    neighborhoods,  \* DBSCAN: per point, the indices within eps (ascending)
    labels,         \* DBSCAN: the label array being filled
    i,              \* DBSCAN: index of the outer scan over the points
    cur,            \* DBSCAN: point the depth-first expansion is visiting
    stack,          \* DBSCAN: stack of the depth-first expansion
    label_num,      \* DBSCAN: id of the cluster being grown
    cluster,        \* df['cluster'], <<>> until run_dbscan assigns it
    run,            \* how many times run_dbscan was invoked on this frame
    prev,           \* df['cluster'] of the previous invocation
    resp,           \* the response handed to the caller
    mapFile,        \* contents of static/map.html (one element per marker)
    wpc,            \* per concurrent /results request: its position
    wFrame,         \* per concurrent /results request: the frame it fetched
    wSeen           \* per concurrent /results request: map.html as it returns

vars == <<feed, pc, scaler, neighborhoods, labels, i, cur, stack,
          label_num, cluster, run, prev, resp, mapFile, wpc, wFrame, wSeen>>

engineVars == <<scaler, neighborhoods, labels, i, cur, stack, label_num>>
webVars == <<wpc, wFrame, wSeen>>

-----------------------------------------------------------------------------
(* Bounds of the model and constants of the program *)

MaxMult == 2        \* events per near site
MaxFar == 5         \* events at the far site
MaxWebRows == 2     \* rows of a frame in the concurrent /results model

EpsNum == 1         \* eps = 0.2 = EpsNum / EpsDen
EpsDen == 5
MinSamples == 5     \* min_samples

NOISE == -1

-----------------------------------------------------------------------------
(* The feeds the model draws from: events at five sites one degree of      *)
(* longitude apart and at one far site, fed west to east or east to west.  *)

NearSites == << <<0, 0>>, <<0, 1>>, <<0, 2>>, <<0, 3>>, <<0, 4>> >>
FarSite == <<1, 20>>
Sites == Append(NearSites, FarSite)
NSites == Len(Sites)

SiteMax(s) == IF s <= Len(NearSites) THEN MaxMult ELSE MaxFar

MaxOf(a, b) == IF a >= b THEN a ELSE b

Counts ==
    {c \in [1..NSites -> 0..MaxOf(MaxMult, MaxFar)] :
        \A s \in 1..NSites : c[s] <= SiteMax(s)}

SiteOrders == { <<1, 2, 3, 4, 5, 6>>, <<6, 5, 4, 3, 2, 1>> }

Copies(p, n) == [k \in 1..n |-> p]

RECURSIVE Build(_, _, _)
Build(c, order, k) ==
    IF k > NSites THEN <<>>
    ELSE Copies(Sites[order[k]], c[order[k]]) \o Build(c, order, k + 1)

Feeds == {Build(c, o, 1) : c \in Counts, o \in SiteOrders}

-----------------------------------------------------------------------------
(* StandardScaler.fit_transform and the eps test on the scaled points *)

RECURSIVE SumAxis(_, _, _)
SumAxis(X, a, k) == IF k = 0 THEN 0 ELSE X[k][a] + SumAxis(X, a, k - 1)

RECURSIVE SumSqAxis(_, _, _)
SumSqAxis(X, a, k) == IF k = 0 THEN 0 ELSE X[k][a] * X[k][a] + SumSqAxis(X, a, k - 1)

\* n^2 times the population variance of axis a
VarN2(X, a) ==
    LET n == Len(X)
        s == SumAxis(X, a, n)
    IN n * SumSqAxis(X, a, n) - s * s

\* scale_^2 times n^2: a zero variance axis is scaled by 1
ScaleN2(X, a) == IF VarN2(X, a) = 0 THEN Len(X) * Len(X) ELSE VarN2(X, a)

Fit(X) == [n |-> Len(X), lat |-> ScaleN2(X, 1), lon |-> ScaleN2(X, 2)]

Sq(x) == x * x

\* squared distance of rows p and q of X_scaled is at most eps^2
WithinEps(sc, X, p, q) ==
    Sq(EpsDen) * Sq(sc.n)
        * (Sq(X[p][1] - X[q][1]) * sc.lon + Sq(X[p][2] - X[q][2]) * sc.lat)
    <= Sq(EpsNum) * sc.lat * sc.lon

IndexSeq(n) == [k \in 1..n |-> k]

RadiusNeighbors(sc, X, p) ==
    SelectSeq(IndexSeq(Len(X)), LAMBDA q : WithinEps(sc, X, p, q))

-----------------------------------------------------------------------------
(* DBSCAN.fit_predict *)

UnassignedLabels(n) == [k \in 1..n |-> -2]
InitialLabels(n) == [k \in 1..n |-> NOISE]

OverMinSamples(nb) == Len(nb) > MinSamples
CoreSample(nb) == Len(nb) >= MinSamples

IsCore(v) == CoreSample(neighborhoods[v])

SeedOnlyExpands(v) == IsCore(v) /\ v = i
Expands(v) == IsCore(v)

NotInCluster(lab, v) == lab[v] # label_num
Unlabelled(lab, v) == lab[v] = NOISE

CarriedLabel == label_num
FirstLabel == 0

SkipLabel(l) == l + 2
NextLabel(l) == l + 1

\* the label array after visiting cur
VisitLabels ==
    IF Unlabelled(labels, cur) THEN [labels EXCEPT ![cur] = label_num] ELSE labels

\* the stack after visiting cur
VisitStack ==
    IF Unlabelled(labels, cur) /\ Expands(cur)
    THEN stack \o SelectSeq(neighborhoods[cur], LAMBDA v : Unlabelled(VisitLabels, v))
    ELSE stack

-----------------------------------------------------------------------------
(* Summary statistics of the label column *)

LabelSet(col) == {col[k] : k \in 1..Len(col)}

RECURSIVE Count(_, _, _)
Count(col, l, k) ==
    IF k = 0 THEN 0
    ELSE (IF col[k] = l THEN 1 ELSE 0) + Count(col, l, k - 1)

\* len(set(df['cluster'])) - (1 if -1 in df['cluster'].values else 0)
NClustersNoAdjust(col) == Cardinality(LabelSet(col))
NClusters(col) ==
    Cardinality(LabelSet(col)) - (IF NOISE \in LabelSet(col) THEN 1 ELSE 0)

\* list(df['cluster']).count(-1)
NNoise(col) == Count(col, NOISE, Len(col))

\* df['cluster'].value_counts(): label -> number of rows
ValueCounts(col) == [l \in LabelSet(col) |-> Count(col, l, Len(col))]

MaxIn(S) == CHOOSE m \in S : \A x \in S : x <= m

IntVal(v) == [kind |-> "int", value |-> v]
NaN == [kind |-> "nan", value |-> 0]
Absent == [kind |-> "absent", value |-> 0]

\* cluster_stats[cluster_stats.index != -1].max() if len(cluster_stats) > 0 else 0
\* (the max of an empty Series is NaN)
LargestClusterSize(col) ==
    LET cluster_stats == ValueCounts(col)
        kept == (DOMAIN cluster_stats) \ {NOISE}
    IN IF Cardinality(DOMAIN cluster_stats) > 0
       THEN IF kept = {} THEN NaN ELSE IntVal(MaxIn({cluster_stats[l] : l \in kept}))
       ELSE IntVal(0)

-----------------------------------------------------------------------------
(* Responses *)

NoResp ==
    [route |-> "", status |-> 0, error |-> "", total |-> 0, clusters |-> 0, outliers |-> 0,
     largest |-> Absent]

Failure(e) == [NoResp EXCEPT !.status = 500, !.error = e]

\* api_stats with the exception swallowed into an all-zero payload
ApiStatsSwallow(e) == [NoResp EXCEPT !.status = 200]
\* api_stats: except Exception as e: return jsonify({'error': str(e)}), 500
ApiStatsExcept(e) == Failure(e)

\* results has no handler: the exception leaves the view and Flask answers 500
Unhandled(e) == Failure(e)

Routes == {"api_stats", "results"}

OnException(rt, e) ==
    [(IF rt = "api_stats" THEN ApiStatsExcept(e) ELSE Unhandled(e)) EXCEPT !.route = rt]

\* one CircleMarker per row, placed at the row and coloured by its cluster
RenderMap(X, col) == [k \in 1..Len(X) |-> [location |-> X[k], cluster |-> col[k]]]

-----------------------------------------------------------------------------
(* The pipeline of one request *)

N == Len(feed)

\* df[['properties.time', ...]] on the frame of an empty feature list
FetchRaises(X) == Len(X) = 0
\* StandardScaler refuses an array of zero samples
ScalerRaises(X) == Len(X) = 0

Init ==
    /\ feed \in Feeds
    /\ pc = "fetch"
    /\ scaler = Fit(<<>>)
    /\ neighborhoods = <<>>
    /\ labels = <<>>
    /\ i = 0
    /\ cur = 0
    /\ stack = <<>>
    /\ label_num = 0
    /\ cluster = <<>>
    /\ run = 1
    /\ prev = <<>>
    /\ resp = NoResp
    /\ mapFile = <<>>
    /\ wpc = <<>>
    /\ wFrame = <<>>
    /\ wSeen = <<>>

FetchFails ==
    /\ pc = "fetch"
    /\ FetchRaises(feed)
    /\ \E rt \in Routes : resp' = OnException(rt, "KeyError")
    /\ pc' = "returned"
    /\ UNCHANGED <<feed, engineVars, cluster, run, prev, mapFile, webVars>>

Fetch ==
    /\ pc = "fetch"
    /\ ~FetchRaises(feed)
    /\ pc' = "fetched"
    /\ UNCHANGED <<feed, engineVars, cluster, run, prev, resp, mapFile, webVars>>

FitTransform ==
    /\ pc = "fetched"
    /\ IF ScalerRaises(feed)
       THEN /\ \E rt \in Routes : resp' = OnException(rt, "ValueError")
            /\ pc' = "returned"
            /\ UNCHANGED scaler
       ELSE /\ scaler' = Fit(feed)
            /\ pc' = "scaled"
            /\ UNCHANGED resp
    /\ UNCHANGED <<feed, neighborhoods, labels, i, cur, stack, label_num,
                   cluster, run, prev, mapFile, webVars>>

DbscanFit ==
    /\ pc = "scaled"
    /\ neighborhoods' = [p \in 1..N |-> RadiusNeighbors(scaler, feed, p)]
    /\ labels' = InitialLabels(N)
    /\ label_num' = FirstLabel
    /\ i' = 1
    /\ cur' = 0
    /\ stack' = <<>>
    /\ pc' = "scan"
    /\ UNCHANGED <<feed, scaler, cluster, run, prev, resp, mapFile, webVars>>

ScanSkip ==
    /\ pc = "scan"
    /\ i <= N
    /\ (labels[i] # NOISE \/ ~IsCore(i))
    /\ i' = i + 1
    /\ UNCHANGED <<feed, pc, scaler, neighborhoods, labels, cur, stack,
                   label_num, cluster, run, prev, resp, mapFile, webVars>>

ScanSeed ==
    /\ pc = "scan"
    /\ i <= N
    /\ labels[i] = NOISE
    /\ IsCore(i)
    /\ cur' = i
    /\ pc' = "expand"
    /\ UNCHANGED <<feed, scaler, neighborhoods, labels, i, stack,
                   label_num, cluster, run, prev, resp, mapFile, webVars>>

ExpandPop ==
    /\ pc = "expand"
    /\ VisitStack # <<>>
    /\ labels' = VisitLabels
    /\ cur' = VisitStack[Len(VisitStack)]
    /\ stack' = SubSeq(VisitStack, 1, Len(VisitStack) - 1)
    /\ UNCHANGED <<feed, pc, scaler, neighborhoods, i, label_num,
                   cluster, run, prev, resp, mapFile, webVars>>

ExpandBreak ==
    /\ pc = "expand"
    /\ VisitStack = <<>>
    /\ labels' = VisitLabels
    /\ label_num' = NextLabel(label_num)
    /\ i' = i + 1
    /\ pc' = "scan"
    /\ UNCHANGED <<feed, scaler, neighborhoods, cur, stack,
                   cluster, run, prev, resp, mapFile, webVars>>

\* fit_predict returns; df['cluster'] = labels
AssignCluster ==
    /\ pc = "scan"
    /\ i > N
    /\ cluster' = labels
    /\ pc' = "labelled"
    /\ UNCHANGED <<feed, engineVars, run, prev, resp, mapFile, webVars>>

\* run_dbscan is invoked once more on the same frame
Repeat ==
    /\ pc = "labelled"
    /\ run = 1
    /\ prev' = cluster
    /\ run' = 2
    /\ cluster' = <<>>
    /\ pc' = "fetched"
    /\ UNCHANGED <<feed, engineVars, resp, mapFile, webVars>>

api_stats ==
    /\ pc = "labelled"
    /\ resp' = [NoResp EXCEPT !.route = "api_stats",
                              !.status = 200,
                              !.total = Len(cluster),
                              !.clusters = NClusters(cluster),
                              !.outliers = NNoise(cluster)]
    /\ pc' = "returned"
    /\ UNCHANGED <<feed, engineVars, cluster, run, prev, mapFile, webVars>>

results ==
    /\ pc = "labelled"
    /\ mapFile' = RenderMap(feed, cluster)
    /\ resp' = [NoResp EXCEPT !.route = "results",
                              !.status = 200,
                              !.total = Len(cluster),
                              !.clusters = NClusters(cluster),
                              !.outliers = NNoise(cluster),
                              !.largest = LargestClusterSize(cluster)]
    /\ pc' = "returned"
    /\ UNCHANGED <<feed, engineVars, cluster, run, prev, webVars>>

Next ==
    \/ FetchFails
    \/ Fetch
    \/ FitTransform
    \/ DbscanFit
    \/ ScanSkip
    \/ ScanSeed
    \/ ExpandPop
    \/ ExpandBreak
    \/ AssignCluster
    \/ Repeat
    \/ api_stats
    \/ results

Spec == Init /\ [][Next]_vars

-----------------------------------------------------------------------------
(* Two concurrent /results requests sharing static/map.html.  The frames   *)
(* they fetch hold fewer than min_samples rows, so no row is a core sample *)
(* and fit_predict leaves every label at -1.                               *)

Requests == {"r1", "r2"}

WebSites == {Sites[1], Sites[NSites]}

WebFrames == UNION {[1..n -> WebSites] : n \in 1..MaxWebRows}

SparseLabels(X) == InitialLabels(Len(X))

\* fid.write on a file opened at offset 0: the bytes replace what they cover
Overwrite(file, data) ==
    [k \in 1..MaxOf(Len(file), Len(data)) |->
        IF k <= Len(data) THEN data[k] ELSE file[k]]

WebInit ==
    /\ feed = <<>>
    /\ pc = "web"
    /\ scaler = Fit(<<>>)
    /\ neighborhoods = <<>>
    /\ labels = <<>>
    /\ i = 0
    /\ cur = 0
    /\ stack = <<>>
    /\ label_num = 0
    /\ cluster = <<>>
    /\ run = 1
    /\ prev = <<>>
    /\ resp = NoResp
    /\ mapFile = <<>>
    /\ wpc = [r \in Requests |-> "start"]
    /\ wFrame = [r \in Requests |-> <<>>]
    /\ wSeen = [r \in Requests |-> <<>>]

pipelineVars == <<feed, pc, engineVars, cluster, run, prev, resp>>

\* df = fetch_earthquake_data(); df = run_dbscan(df)
WebFetch(r) ==
    /\ wpc[r] = "start"
    /\ \E X \in WebFrames : wFrame' = [wFrame EXCEPT ![r] = X]
    /\ wpc' = [wpc EXCEPT ![r] = "labelled"]
    /\ UNCHANGED <<pipelineVars, mapFile, wSeen>>

\* create_map up to m.save: open(map_path, 'wb') truncates the file
WebOpen(r) ==
    /\ wpc[r] = "labelled"
    /\ mapFile' = <<>>
    /\ wpc' = [wpc EXCEPT ![r] = "opened"]
    /\ UNCHANGED <<pipelineVars, wFrame, wSeen>>

\* m.save: the rendered html is written and the file closed
WebWrite(r) ==
    /\ wpc[r] = "opened"
    /\ mapFile' = Overwrite(mapFile, RenderMap(wFrame[r], SparseLabels(wFrame[r])))
    /\ wpc' = [wpc EXCEPT ![r] = "saved"]
    /\ UNCHANGED <<pipelineVars, wFrame, wSeen>>

\* the statistics are computed and the response is returned
WebReturn(r) ==
    /\ wpc[r] = "saved"
    /\ wSeen' = [wSeen EXCEPT ![r] = mapFile]
    /\ wpc' = [wpc EXCEPT ![r] = "returned"]
    /\ UNCHANGED <<pipelineVars, mapFile, wFrame>>

WebNext ==
    \E r \in Requests :
        \/ WebFetch(r)
        \/ WebOpen(r)
        \/ WebWrite(r)
        \/ WebReturn(r)

WebSpec == WebInit /\ [][WebNext]_vars

-----------------------------------------------------------------------------
(* Vocabulary of the properties: the eps-neighbourhoods as                *)
(* radius_neighbors returned them, the core points, and what the engine    *)
(* has left to do.                                                         *)

Labelled == pc = "labelled"

\* q lies within eps of p in the standardized space
InEps(p, q) == \E k \in 1..Len(neighborhoods[p]) : neighborhoods[p][k] = q

\* the eps-neighbourhood of p, p included, holds at least minPts points
Dense(p) == Len(neighborhoods[p]) >= MinSamples

CorePoints == {p \in 1..N : Dense(p)}

\* the core points that reach b within eps
Reaching(b) == {c \in 1..N : Dense(c) /\ InEps(b, c)}

BorderPoints == {b \in 1..N : ~Dense(b) /\ Reaching(b) # {}}

ClusterIds == {cluster[k] : k \in 1..Len(cluster)} \ {NOISE}

CoresOf(c) == {p \in 1..N : Dense(p) /\ cluster[p] = c}

\* the core points joined to those of S by a chain of core points, each
\* step at most eps; F holds the ones found last
RECURSIVE Grow(_, _)
Grow(S, F) ==
    LET new == {c \in 1..N : Dense(c) /\ c \notin S /\ \E u \in F : InEps(u, c)}
    IN IF new = {} THEN S ELSE Grow(S \cup new, new)

MinIn(S) == CHOOSE m \in S : \A x \in S : m <= x

\* what is left for the engine to do: it drops at every step of the scan
\* and of the expansion
Measure ==
    Cardinality({k \in 1..Len(labels) : labels[k] = NOISE}) * 2 * (N + 1)
    + 2 * (N + 1 - i)
    + 2 * Len(stack)
    + (IF pc = "scan" THEN 1 ELSE 0)

-----------------------------------------------------------------------------
\* a step of the scan or of the expansion lowers the measure
StepDecreases == pc \in {"scan", "expand"} => Measure > Measure'

\* a step leaves the cluster label of a non-core point alone
StepKeepsBorderLabels ==
    pc \in {"scan", "expand"} =>
        \A k \in 1..N : (~Dense(k) /\ labels[k] >= 0) => labels'[k] = labels[k]

(* C1: run_dbscan on N >= 1 points terminates (every step of the scan and  *)
(* of the expansion lowers a natural-number measure) and leaves exactly N  *)
(* labels, the label at index k being the one the engine gave row k, each  *)
(* either -1 or a cluster id >= 0.                                         *)
C1_LabelArray ==
    /\ [](Labelled =>
            /\ N >= 1
            /\ DOMAIN cluster = 1..N
            /\ cluster = labels
            /\ \A k \in 1..N : cluster[k] = NOISE \/ cluster[k] >= 0)
    /\ [](pc \in {"scan", "expand"} => Measure >= 0)
    /\ [][StepDecreases]_vars

C1_Witness ==
    /\ Labelled
    /\ N > MinSamples
    /\ \E k \in 1..N : cluster[k] = NOISE
    /\ \E k \in 1..N : cluster[k] >= 0

(* C2: when clustering has finished a point is noise exactly when it is    *)
(* not a core point and no core point lies within eps of it.               *)
C2_NoiseIff ==
    Labelled =>
        \A k \in 1..N : (cluster[k] = NOISE) <=> (~Dense(k) /\ Reaching(k) = {})

C2_Witness ==
    /\ Labelled
    /\ \E b \in BorderPoints : cluster[b] >= 0
    /\ \E k \in 1..N : ~Dense(k) /\ Reaching(k) = {}

(* C3: every border point ends with the label of some core point within   *)
(* eps of it, the label of its only reaching core point when there is just *)
(* one, and a border point that holds a cluster label keeps it.            *)
C3_Border ==
    /\ [](Labelled =>
            \A b \in BorderPoints :
                /\ \E c \in Reaching(b) : cluster[b] = cluster[c]
                /\ Cardinality(Reaching(b)) = 1
                       => \A c \in Reaching(b) : cluster[b] = cluster[c])
    /\ [][StepKeepsBorderLabels]_vars

C3_Witness ==
    /\ Labelled
    /\ \E b \in BorderPoints : \E c, d \in Reaching(b) : cluster[c] # cluster[d]
    /\ \E b \in BorderPoints : Cardinality(Reaching(b)) = 1

C6_Summary ==
    (pc = "returned" /\ resp.status = 200) =>
        /\ resp.clusters = Cardinality(ClusterIds)
        /\ resp.outliers = Cardinality({k \in 1..N : cluster[k] = NOISE})
        /\ resp.total = N

C6_Witness ==
    /\ pc = "returned"
    /\ resp.status = 200
    /\ resp.clusters >= 2
    /\ resp.outliers >= 1

(* C7: largestClusterSize of /results is the largest point count over the  *)
(* clusters, and 0 when no cluster exists.                                 *)
C7_Largest ==
    (pc = "returned" /\ resp.status = 200 /\ resp.route = "results") =>
        resp.largest =
            IntVal(IF ClusterIds = {} THEN 0
                   ELSE MaxIn({Cardinality({k \in 1..N : cluster[k] = c}) :
                                 c \in ClusterIds}))

(* C8: restricted to core points the clusters are the connected components *)
(* of the graph joining core points at most eps apart: every core point is *)
(* in a cluster, core points within eps of each other share their cluster  *)
(* id, and the core points of one cluster are all joined by chains of core *)
(* points.                                                                 *)
C8_Components ==
    Labelled =>
        /\ \A u \in CorePoints :
            /\ cluster[u] >= 0
            /\ \A v \in CorePoints : InEps(u, v) => cluster[u] = cluster[v]
        /\ \A c \in ClusterIds :
            LET u == MinIn(CoresOf(c)) IN Grow({u}, {u}) = CoresOf(c)

C8_Witness ==
    /\ Labelled
    /\ Cardinality(ClusterIds) >= 2
    /\ \E u, v \in CorePoints : ~InEps(u, v) /\ cluster[u] = cluster[v]

(* C9: the cluster ids in use are 0..k-1, every cluster holds a core point *)
(* and the lowest-index core point of cluster c comes before that of       *)
(* cluster c+1 in the input.                                               *)
C9_ClusterIds ==
    Labelled =>
        LET k == Cardinality(ClusterIds)
        IN /\ ClusterIds = 0..(k - 1)
           /\ \A c \in ClusterIds : CoresOf(c) # {}
           /\ \A c \in 0..(k - 2) : MinIn(CoresOf(c)) < MinIn(CoresOf(c + 1))

C9_Witness ==
    Labelled /\ Cardinality(ClusterIds) >= 3

(* C10: the map file in place when a /results request returns is the one   *)
(* rendered from that request's own labelled frame.                        *)
C10_OwnMap ==
    \A r \in Requests :
        wpc[r] = "returned" => wSeen[r] = RenderMap(wFrame[r], SparseLabels(wFrame[r]))

====
